---- MODULE Spec2Model ----
(***************************************************************************)
(* The kitties pallet (node/pallets/kitties/src/lib.rs) as a state         *)
(* machine: the four storage items of the pallet, the free and reserved    *)
(* balances of the Currency the pallet is configured with, and one action  *)
(* per dispatchable call (create, transfer, breed, sell, buy).             *)
(*                                                                         *)
(* The dispatchables carry no #[transactional] attribute: a call that      *)
(* returns Err after it has written keeps what it wrote.  A call that      *)
(* panics is not applied at all.                                           *)
(*                                                                         *)
(* Option<T> is modelled as a sequence: None is <<>>, Some(x) is <<x>>.    *)
(***************************************************************************)
EXTENDS Integers, Sequences, FiniteSets, TLC

\* ---------------------------------------------------------------- bounds
\* T::KittyIndex::max_value() of the (scaled down) KittyIndex type.
KittyIndexMax == 3
\* Maximum of the (scaled down) Balance type; arithmetic on balances is
\* modulo BalanceMax + 1 where the code uses the wrapping operator +.
BalanceMax == 15
\* Number of bytes of a genome (16 in the code).
DnaLen == 2

\* Number of calls a behaviour makes.
MaxCalls == 4

\* ------------------------------------------------------------- constants
\* T::StakeForEachKitty::get()
StakeForEachKitty == 2
\* T::ExistentialDeposit of the Currency (pallet_balances) behind T::Currency
ExistentialDeposit == 2

Accounts == {"a1", "a2", "a3"}
KittyIndex == 0..KittyIndexMax
Balance == 0..BalanceMax

None == <<>>
Some(x) == <<x>>

\* Free balances the accounts are endowed with at genesis: nothing or at
\* least the existential deposit each, and no more than BalanceMax in total
\* (the total issuance is a Balance).
Endowments ==
    { [a \in Accounts |-> IF a = "a3" THEN 3 ELSE 6],
      [a \in Accounts |-> IF a = "a1" THEN 6 ELSE IF a = "a2" THEN 3 ELSE 0] }

\* Prices a seller passes to sell: Option<Balance>.  The high price is the one
\* whose sum with the stake is BalanceMax + 1, which wraps to 0.
Prices == {None, Some(1), Some(BalanceMax + 1 - StakeForEachKitty)}

\* Outputs of random_value the model draws from (bytes are 0..255): the
\* genomes create stores and the selectors breed uses.
RandomValues ==
    { [i \in 1..DnaLen |-> 15],
      [i \in 1..DnaLen |-> IF i % 2 = 1 THEN 60 ELSE 255] }

Selectors == { [i \in 1..DnaLen |-> IF i % 2 = 1 THEN 240 ELSE 90] }

VARIABLES
    free,            \* Currency: free balance of every account
    reserved,        \* Currency: reserved balance of every account
    KittiesCount,    \* StorageValue<KittyIndex>, read as Option
    Kitties,         \* StorageMap KittyIndex -> Option<Kitty>, ValueQuery
    Owner,           \* StorageMap KittyIndex -> Option<AccountId>, ValueQuery
    ListForSale,     \* StorageMap KittyIndex -> Option<Balance>: the stored
                     \* value as an Option (None: no key in storage)
    events,          \* events deposited by the last call (the call is the
                     \* only extrinsic of its block)
    call,            \* the dispatchable last called
    result,          \* what the last call returned: "Ok", an error, "panic"
    ncalls           \* number of calls made so far

vars == <<free, reserved, KittiesCount, Kitties, Owner, ListForSale,
          events, call, result, ncalls>>

\* The storage and balances a call reads and writes, as one record.
State ==
    [ free |-> free, reserved |-> reserved, KittiesCount |-> KittiesCount,
      Kitties |-> Kitties, Owner |-> Owner, ListForSale |-> ListForSale,
      events |-> <<>> ]

\* --------------------------------------------------------------- results
Ok(st) == [st |-> st, res |-> "Ok"]
Err(st, e) == [st |-> st, res |-> e]

\* ------------------------------------------------ Currency (the host)
free_balance(st, who) == st.free[who]

total_balance(st, who) == st.free[who] + st.reserved[who]

Min(a, b) == IF a < b THEN a ELSE b

\* ReservableCurrency::reserve: moves value from free to reserved, or fails.
reserve(st, who, value) ==
    IF value = 0 THEN Ok(st)
    ELSE IF st.free[who] < value THEN Err(st, "InsufficientBalance")
    ELSE Ok([st EXCEPT !.free[who] = @ - value, !.reserved[who] = @ + value])

\* ReservableCurrency::unreserve: moves up to value from reserved to free.
unreserve(st, who, value) ==
    IF value = 0 \/ total_balance(st, who) = 0 THEN st
    ELSE LET actual == Min(st.reserved[who], value) IN
         [st EXCEPT !.free[who] = @ + actual, !.reserved[who] = @ - actual]

\* Currency::transfer with ExistenceRequirement::KeepAlive: a transfer of
\* nothing or to oneself succeeds at once; otherwise the source must hold the
\* value in its free balance, the destination must end with at least the
\* existential deposit, and the source must keep at least the existential
\* deposit in its free balance.
transfer_keep_alive(st, source, dest, value) ==
    IF value = 0 \/ source = dest THEN Ok(st)
    ELSE IF st.free[source] < value THEN Err(st, "InsufficientBalance")
    ELSE IF st.free[dest] + value > BalanceMax THEN Err(st, "Overflow")
    ELSE IF total_balance(st, dest) + value < ExistentialDeposit
        THEN Err(st, "ExistentialDeposit")
    ELSE IF st.free[source] - value < ExistentialDeposit THEN Err(st, "KeepAlive")
    ELSE Ok([st EXCEPT !.free[source] = @ - value, !.free[dest] = @ + value])

\* ------------------------------------------------------ storage getters
kitties_count(st) == st.KittiesCount

kitties(st, kitty_id) == st.Kitties[kitty_id]

owner(st, kitty_id) == st.Owner[kitty_id]

\* ListForSale::get under ValueQuery: the stored Option<Balance>, or the
\* default None when the key is not in storage.
kitties_list_for_sales(st, kitty_id) ==
    IF st.ListForSale[kitty_id] = None THEN None ELSE st.ListForSale[kitty_id][1]

deposit_event(st, e) == [st EXCEPT !.events = Append(@, e)]

\* Mutants of new_kitty_with_stake: one stores the id it issued as the new
\* KittiesCount, one leaves out the Owner entry.
new_kitty_with_stake_same_count(st, who, dna) ==
    IF kitties_count(st) # None /\ kitties_count(st)[1] = KittyIndexMax
    THEN Err(st, "KittiesCountOverflow")
    ELSE
      LET kitty_id == IF kitties_count(st) = None THEN 0 ELSE kitties_count(st)[1]
          r == reserve(st, who, StakeForEachKitty)
      IN  IF r.res # "Ok" THEN Err(r.st, "NotEnoughBalanceForStaking")
          ELSE Ok(deposit_event(
                 [r.st EXCEPT !.Kitties[kitty_id] = Some(dna),
                              !.Owner[kitty_id] = Some(who),
                              !.KittiesCount = Some(kitty_id)],
                 <<"KittyCreated", who, kitty_id>>))

new_kitty_with_stake_no_owner(st, who, dna) ==
    IF kitties_count(st) # None /\ kitties_count(st)[1] = KittyIndexMax
    THEN Err(st, "KittiesCountOverflow")
    ELSE
      LET kitty_id == IF kitties_count(st) = None THEN 0 ELSE kitties_count(st)[1]
          r == reserve(st, who, StakeForEachKitty)
      IN  IF r.res # "Ok" THEN Err(r.st, "NotEnoughBalanceForStaking")
          ELSE Ok(deposit_event(
                 [r.st EXCEPT !.Kitties[kitty_id] = Some(dna),
                              !.KittiesCount = Some(kitty_id + 1)],
                 <<"KittyCreated", who, kitty_id>>))

\* Mutants of new_kitty_with_stake: one writes the storage before it reserves
\* the stake, one does not compare KittiesCount with the maximum.
new_kitty_with_stake_insert_first(st, who, dna) ==
    IF kitties_count(st) # None /\ kitties_count(st)[1] = KittyIndexMax
    THEN Err(st, "KittiesCountOverflow")
    ELSE
      LET kitty_id == IF kitties_count(st) = None THEN 0 ELSE kitties_count(st)[1]
          s1 == [st EXCEPT !.Kitties[kitty_id] = Some(dna),
                           !.Owner[kitty_id] = Some(who),
                           !.KittiesCount = Some(kitty_id + 1)]
          r == reserve(s1, who, StakeForEachKitty)
      IN  IF r.res # "Ok" THEN Err(r.st, "NotEnoughBalanceForStaking")
          ELSE Ok(deposit_event(r.st, <<"KittyCreated", who, kitty_id>>))

new_kitty_with_stake_unchecked(st, who, dna) ==
    LET kitty_id == IF kitties_count(st) = None THEN 0 ELSE kitties_count(st)[1]
        r == reserve(st, who, StakeForEachKitty)
    IN  IF r.res # "Ok" THEN Err(r.st, "NotEnoughBalanceForStaking")
        ELSE Ok(deposit_event(
               [r.st EXCEPT !.Kitties[kitty_id] = Some(dna),
                            !.Owner[kitty_id] = Some(who),
                            !.KittiesCount = Some((kitty_id + 1) % (KittyIndexMax + 1))],
               <<"KittyCreated", who, kitty_id>>))

\* ------------------------------------------------------------- helpers
new_kitty_with_stake(st, who, dna) ==
    IF kitties_count(st) # None /\ kitties_count(st)[1] = KittyIndexMax
    THEN Err(st, "KittiesCountOverflow")
    ELSE
      LET kitty_id == IF kitties_count(st) = None THEN 0 ELSE kitties_count(st)[1]
          r == reserve(st, who, StakeForEachKitty)
      IN  IF r.res # "Ok" THEN Err(r.st, "NotEnoughBalanceForStaking")
          ELSE Ok(deposit_event(
                 [r.st EXCEPT !.Kitties[kitty_id] = Some(dna),
                              !.Owner[kitty_id] = Some(who),
                              !.KittiesCount = Some(kitty_id + 1)],
                 <<"KittyCreated", who, kitty_id>>))

\* Bitwise operators on bytes (u8).
RECURSIVE BitAnd(_, _)
BitAnd(x, y) ==
    IF x = 0 \/ y = 0 THEN 0
    ELSE (x % 2) * (y % 2) + 2 * BitAnd(x \div 2, y \div 2)

RECURSIVE BitOr(_, _)
BitOr(x, y) ==
    IF x = 0 THEN y
    ELSE IF y = 0 THEN x
    ELSE (IF x % 2 = 1 \/ y % 2 = 1 THEN 1 ELSE 0) + 2 * BitOr(x \div 2, y \div 2)

BitNot(x) == 255 - x

\* The operators & and | of u8 as tables, computed once.
ByteAnd == [x \in 0..255 |-> [y \in 0..255 |-> BitAnd(x, y)]]
ByteOr == [x \in 0..255 |-> [y \in 0..255 |-> BitOr(x, y)]]

\* Mutant of new_dna: the selector picks from the other parent.
new_dna_swapped(dna_1, dna_2, selector) ==
    [i \in 1..Len(dna_1) |->
        ByteOr[ByteAnd[selector[i]][dna_2[i]]][ByteAnd[BitNot(selector[i])][dna_1[i]]]]

\* The loop of breed: new_dna[i] = (selector[i] & dna_1[i]) | (!selector[i] & dna_2[i])
new_dna(dna_1, dna_2, selector) ==
    [i \in 1..Len(dna_1) |->
        ByteOr[ByteAnd[selector[i]][dna_1[i]]][ByteAnd[BitNot(selector[i])][dna_2[i]]]]

\* amount + stake_amount on the Balance type, as <<sum>>: the sum when it
\* fits; when it does not, a panic (<<>>) in a build with overflow checks and
\* the wrapped sum in a build without.
add_balance(a, b, overflow_checks) ==
    IF a + b <= BalanceMax THEN <<a + b>>
    ELSE IF overflow_checks THEN <<>>
    ELSE <<(a + b) % (BalanceMax + 1)>>

\* --------------------------------------------------------- dispatchables
create(st, who, dna) == new_kitty_with_stake(st, who, dna)

\* Mutant of transfer: the stake of the ex-owner is not unreserved.
transfer_without_unreserve(st, who, new_owner, kitty_id) ==
    IF Some(who) # owner(st, kitty_id) THEN Err(st, "NotOwner")
    ELSE
      LET stake_amount == StakeForEachKitty
          r == reserve(st, new_owner, stake_amount)
      IN  IF r.res # "Ok" THEN Err(r.st, "NotEnoughBalanceForStaking")
          ELSE Ok(deposit_event(
                 [r.st EXCEPT !.Owner[kitty_id] = Some(new_owner)],
                 <<"KittyTransferred", who, new_owner, kitty_id>>))

\* Mutant of transfer: the listing of the kitty is removed.
transfer_clearing_listing(st, who, new_owner, kitty_id) ==
    IF Some(who) # owner(st, kitty_id) THEN Err(st, "NotOwner")
    ELSE
      LET stake_amount == StakeForEachKitty
          r == reserve(st, new_owner, stake_amount)
      IN  IF r.res # "Ok" THEN Err(r.st, "NotEnoughBalanceForStaking")
          ELSE Ok(deposit_event(
                 [unreserve(r.st, who, stake_amount)
                     EXCEPT !.Owner[kitty_id] = Some(new_owner),
                            !.ListForSale[kitty_id] = None],
                 <<"KittyTransferred", who, new_owner, kitty_id>>))

\* Mutant of transfer: the stake of the ex-owner is unreserved before the
\* stake of the new owner is reserved.
transfer_release_first(st, who, new_owner, kitty_id) ==
    IF Some(who) # owner(st, kitty_id) THEN Err(st, "NotOwner")
    ELSE
      LET stake_amount == StakeForEachKitty
          r == reserve(unreserve(st, who, stake_amount), new_owner, stake_amount)
      IN  IF r.res # "Ok" THEN Err(r.st, "NotEnoughBalanceForStaking")
          ELSE Ok(deposit_event(
                 [r.st EXCEPT !.Owner[kitty_id] = Some(new_owner)],
                 <<"KittyTransferred", who, new_owner, kitty_id>>))

transfer(st, who, new_owner, kitty_id) ==
    IF Some(who) # owner(st, kitty_id) THEN Err(st, "NotOwner")
    ELSE
      LET stake_amount == StakeForEachKitty
          r == reserve(st, new_owner, stake_amount)
      IN  IF r.res # "Ok" THEN Err(r.st, "NotEnoughBalanceForStaking")
          ELSE Ok(deposit_event(
                 [unreserve(r.st, who, stake_amount)
                     EXCEPT !.Owner[kitty_id] = Some(new_owner)],
                 <<"KittyTransferred", who, new_owner, kitty_id>>))

\* Mutants of breed: one does not compare the two parent ids, one gives the
\* new kitty to the owner of the first parent.
breed_same_parent(st, who, kitty_id_1, kitty_id_2, selector) ==
    IF kitties(st, kitty_id_1) = None THEN Err(st, "InvalidKittyIndex")
    ELSE IF kitties(st, kitty_id_2) = None THEN Err(st, "InvalidKittyIndex")
    ELSE
      LET dna_1 == kitties(st, kitty_id_1)[1]
          dna_2 == kitties(st, kitty_id_2)[1]
      IN  new_kitty_with_stake(st, who, new_dna(dna_1, dna_2, selector))

breed_for_parent_owner(st, who, kitty_id_1, kitty_id_2, selector) ==
    IF kitty_id_1 = kitty_id_2 THEN Err(st, "SameParentIndex")
    ELSE IF kitties(st, kitty_id_1) = None THEN Err(st, "InvalidKittyIndex")
    ELSE IF kitties(st, kitty_id_2) = None THEN Err(st, "InvalidKittyIndex")
    ELSE
      LET dna_1 == kitties(st, kitty_id_1)[1]
          dna_2 == kitties(st, kitty_id_2)[1]
      IN  new_kitty_with_stake(st, owner(st, kitty_id_1)[1],
                               new_dna(dna_1, dna_2, selector))

breed(st, who, kitty_id_1, kitty_id_2, selector) ==
    IF kitty_id_1 = kitty_id_2 THEN Err(st, "SameParentIndex")
    ELSE IF kitties(st, kitty_id_1) = None THEN Err(st, "InvalidKittyIndex")
    ELSE IF kitties(st, kitty_id_2) = None THEN Err(st, "InvalidKittyIndex")
    ELSE
      LET dna_1 == kitties(st, kitty_id_1)[1]
          dna_2 == kitties(st, kitty_id_2)[1]
      IN  new_kitty_with_stake(st, who, new_dna(dna_1, dna_2, selector))

\* Mutant of sell: the caller is not checked against the owner.
sell_by_anyone(st, who, kitty_id, price) ==
    Ok(deposit_event(
         [st EXCEPT !.ListForSale[kitty_id] = Some(price)],
         <<"KittyListed", who, kitty_id, price>>))

sell(st, who, kitty_id, price) ==
    IF Some(who) # owner(st, kitty_id) THEN Err(st, "NotOwner")
    ELSE Ok(deposit_event(
           [st EXCEPT !.ListForSale[kitty_id] = Some(price)],
           <<"KittyListed", who, kitty_id, price>>))

\* Mutant of buy_pay: the listing is not removed.
buy_pay_keeping_listing(st, buyer, seller, kitty_id, amount, stake_amount) ==
    LET r1 == reserve(st, buyer, stake_amount) IN
    IF r1.res # "Ok" THEN Err(r1.st, "NotEnoughBalanceForStaking")
    ELSE
      LET s2 == unreserve(r1.st, seller, stake_amount)
          r3 == transfer_keep_alive(s2, buyer, seller, amount)
      IN  IF r3.res # "Ok" THEN r3
          ELSE Ok(deposit_event(
                 [r3.st EXCEPT !.Owner[kitty_id] = Some(buyer)],
                 <<"KittyTransferred", seller, buyer, kitty_id>>))

\* Mutant of buy_pay: the event is deposited before the payment.
buy_pay_event_first(st, buyer, seller, kitty_id, amount, stake_amount) ==
    LET r1 == reserve(st, buyer, stake_amount) IN
    IF r1.res # "Ok" THEN Err(r1.st, "NotEnoughBalanceForStaking")
    ELSE
      LET s2 == deposit_event(unreserve(r1.st, seller, stake_amount),
                              <<"KittyTransferred", seller, buyer, kitty_id>>)
          r3 == transfer_keep_alive(s2, buyer, seller, amount)
      IN  IF r3.res # "Ok" THEN r3
          ELSE Ok([r3.st EXCEPT !.ListForSale[kitty_id] = None,
                                !.Owner[kitty_id] = Some(buyer)])

\* The part of buy after the funds check: nothing is rolled back when the
\* payment fails.
buy_pay(st, buyer, seller, kitty_id, amount, stake_amount) ==
    LET r1 == reserve(st, buyer, stake_amount) IN
    IF r1.res # "Ok" THEN Err(r1.st, "NotEnoughBalanceForStaking")
    ELSE
      LET s2 == unreserve(r1.st, seller, stake_amount)
          r3 == transfer_keep_alive(s2, buyer, seller, amount)
      IN  IF r3.res # "Ok" THEN r3
          ELSE Ok(deposit_event(
                 [r3.st EXCEPT !.ListForSale[kitty_id] = None,
                               !.Owner[kitty_id] = Some(buyer)],
                 <<"KittyTransferred", seller, buyer, kitty_id>>))

buy(st, buyer, kitty_id, overflow_checks) ==
    IF owner(st, kitty_id) = None THEN Err(st, "panic")
    ELSE
      LET seller == owner(st, kitty_id)[1] IN
      IF buyer = seller THEN Err(st, "BuyerIsOwner")
      ELSE IF kitties_list_for_sales(st, kitty_id) = None THEN Err(st, "NotForSale")
      ELSE
        LET amount == kitties_list_for_sales(st, kitty_id)[1]
            buyer_balance == free_balance(st, buyer)
            stake_amount == StakeForEachKitty
            sum == add_balance(amount, stake_amount, overflow_checks)
        IN  IF sum = <<>> THEN Err(st, "panic")
            ELSE IF ~(buyer_balance > sum[1])
                THEN Err(st, "NotEnoughBalanceForBuying")
            ELSE buy_pay(st, buyer, seller, kitty_id, amount, stake_amount)

\* ------------------------------------------------------------ the machine
Init ==
    /\ free \in Endowments
    /\ reserved = [a \in Accounts |-> 0]
    /\ KittiesCount = None
    /\ Kitties = [i \in KittyIndex |-> None]
    /\ Owner = [i \in KittyIndex |-> None]
    /\ ListForSale = [i \in KittyIndex |-> None]
    /\ events = <<>>
    /\ call = "genesis"
    /\ result = "Ok"
    /\ ncalls = 0

\* The call returned r: what it wrote is kept, whether r is Ok or an error.
Apply(r, c) ==
    /\ ncalls < MaxCalls
    /\ ncalls' = ncalls + 1
    /\ call' = c
    /\ result' = r.res
    /\ events' = r.st.events
    /\ free' = r.st.free
    /\ reserved' = r.st.reserved
    /\ KittiesCount' = r.st.KittiesCount
    /\ Kitties' = r.st.Kitties
    /\ Owner' = r.st.Owner
    /\ ListForSale' = r.st.ListForSale

\* One call of each dispatchable, with its arguments.
CreateCall(who, dna) == Apply(create(State, who, dna), "create")

TransferCall(who, new_owner, kitty_id) ==
    Apply(transfer(State, who, new_owner, kitty_id), "transfer")

BreedCall(who, kitty_id_1, kitty_id_2, selector) ==
    Apply(breed(State, who, kitty_id_1, kitty_id_2, selector), "breed")

SellCall(who, kitty_id, price) == Apply(sell(State, who, kitty_id, price), "sell")

\* The overflow of amount + stake_amount panics or wraps, as the build decides.
BuyCall(buyer, kitty_id) ==
    \E overflow_checks \in BOOLEAN :
        Apply(buy(State, buyer, kitty_id, overflow_checks), "buy")

Create == \E who \in Accounts, dna \in RandomValues : CreateCall(who, dna)

Transfer ==
    \E who \in Accounts, new_owner \in Accounts, kitty_id \in KittyIndex :
        TransferCall(who, new_owner, kitty_id)

Breed ==
    \E who \in Accounts, kitty_id_1 \in KittyIndex, kitty_id_2 \in KittyIndex,
       selector \in Selectors :
        BreedCall(who, kitty_id_1, kitty_id_2, selector)

Sell ==
    \E who \in Accounts, kitty_id \in KittyIndex, price \in Prices :
        SellCall(who, kitty_id, price)

Buy == \E buyer \in Accounts, kitty_id \in KittyIndex : BuyCall(buyer, kitty_id)

Next == Create \/ Transfer \/ Breed \/ Sell \/ Buy

Spec == Init /\ [][Next]_vars

\* ------------------------------------------- breed over all its inputs
\* Bytes of the genomes and of the selectors breed is run on: between them
\* they hold, at every bit position, every combination of a selector bit and
\* two parent bits.
ParentBytes == {170, 204}
SelectorBytes == {15, 240}

\* [u8; DnaLen]
Genomes == [1..DnaLen -> ParentBytes]
BreedSelectors == [1..DnaLen -> SelectorBytes]

\* The registry after a1 has created kitties 0 and 1, with any two genomes;
\* one more call is made.
BreedInit ==
    /\ free = [a \in Accounts |->
                 IF a = "a1" THEN 6 - 2 * StakeForEachKitty
                 ELSE IF a = "a2" THEN 6 ELSE 3]
    /\ reserved = [a \in Accounts |-> IF a = "a1" THEN 2 * StakeForEachKitty ELSE 0]
    /\ KittiesCount = Some(2)
    /\ \E dna_1 \in Genomes, dna_2 \in Genomes :
          Kitties = [i \in KittyIndex |->
                       IF i = 0 THEN Some(dna_1) ELSE IF i = 1 THEN Some(dna_2) ELSE None]
    /\ Owner = [i \in KittyIndex |-> IF i \in {0, 1} THEN Some("a1") ELSE None]
    /\ ListForSale = [i \in KittyIndex |-> None]
    /\ events = << <<"KittyCreated", "a1", 1>> >>
    /\ call = "create"
    /\ result = "Ok"
    /\ ncalls = MaxCalls - 1

\* breed with any selector random_value can return.
BreedWith ==
    \E who \in Accounts, kitty_id_1 \in KittyIndex, kitty_id_2 \in KittyIndex,
       selector \in BreedSelectors :
        BreedCall(who, kitty_id_1, kitty_id_2, selector)

BreedNext == BreedWith

BreedSpec == BreedInit /\ [][BreedNext]_vars

\* ================================================================ claims
\* What a call can leave behind: the balances and the pallet's storage.
ledger == <<free, reserved>>
registry == <<Owner, ListForSale, Kitties, KittiesCount>>

\* nextId: the number of kitties created so far.
Count == IF KittiesCount = None THEN 0 ELSE KittiesCount[1]

Owned(a) == {i \in KittyIndex : Owner[i] = Some(a)}

\* Errors that Currency::transfer returns to buy.
PaymentErrors == {"InsufficientBalance", "Overflow", "ExistentialDeposit", "KeepAlive"}

\* C1: in every reachable state every account's reserved balance is
\* StakeForEachKitty times the number of kitties it owns.
StakeBacksEveryKitty ==
    \A a \in Accounts : reserved[a] = StakeForEachKitty * Cardinality(Owned(a))

\* Effect(A, Q): every step that is one of the calls A satisfies Q (A => Q,
\* with the cheaper Q evaluated first).
Effect(A, Q) == Q \/ ~A

\* C2: a buy that fails at the payment step leaves the balances and the
\* registry as they were before the call.
BuyPaymentFailureChangesNothing ==
    [][(call' = "buy" /\ result' \in PaymentErrors) =>
          Effect(\E buyer \in Accounts, kitty_id \in KittyIndex :
                     BuyCall(buyer, kitty_id),
                 UNCHANGED <<ledger, registry>>)]_vars

\* C3: buy of an id that has no Owner entry returns the error
\* InvalidKittyIndex (UnknownAsset) and changes nothing; it does not panic.
BuyUnknownKittyReturnsError ==
    [][call' = "buy" =>
          Effect(\E buyer \in Accounts, kitty_id \in KittyIndex :
                     Owner[kitty_id] = None /\ BuyCall(buyer, kitty_id),
                 result' = "InvalidKittyIndex" /\ UNCHANGED <<ledger, registry>>)]_vars

\* C4 as claimed: whatever the owner's free balance, a transfer of a kitty by
\* its owner to the owner succeeds and leaves the owner's free balance, the
\* owner's reserved balance and the Owner entry as they were.
SelfTransferAlwaysSucceeds ==
    [][call' = "transfer" =>
          Effect(\E who \in Accounts, kitty_id \in KittyIndex :
                     Owner[kitty_id] = Some(who) /\ TransferCall(who, who, kitty_id),
                 result' = "Ok" /\ UNCHANGED <<ledger, Owner>>)]_vars

\* C4 as amended: when the owner's free balance is at least StakeForEachKitty,
\* a transfer of a kitty by its owner to the owner succeeds and leaves the
\* owner's free balance, the owner's reserved balance and the Owner entry as
\* they were.
SelfTransferSucceedsWhenStakeIsFree ==
    [][call' = "transfer" =>
          Effect(\E who \in Accounts, kitty_id \in KittyIndex :
                     /\ Owner[kitty_id] = Some(who)
                     /\ free[who] >= StakeForEachKitty
                     /\ TransferCall(who, who, kitty_id),
                 result' = "Ok" /\ UNCHANGED <<ledger, Owner>>)]_vars

\* C4 witness: a transfer from an account to itself has succeeded.
SelfTransferDone ==
    /\ call = "transfer"
    /\ result = "Ok"
    /\ events[1][2] = events[1][3]
    /\ Owner[events[1][4]] = Some(events[1][2])

\* The price a kitty is listed at, when it is listed.
Listed(kitty_id) == kitties_list_for_sales(State, kitty_id) # None
PriceOf(kitty_id) == kitties_list_for_sales(State, kitty_id)[1]

\* C5: a buy of a kitty listed at P by X, by another account Y whose free
\* balance exceeds P + StakeForEachKitty, succeeds: Y owns the kitty, the
\* listing is cleared, P went from Y to X and the stake from X to Y.
BuyWithFundsSucceeds ==
    [][call' = "buy" =>
          \A Y \in Accounts, X \in Accounts, kitty_id \in KittyIndex :
              (/\ Owner[kitty_id] = Some(X) /\ X # Y
               /\ Listed(kitty_id)
               /\ free[Y] > PriceOf(kitty_id) + StakeForEachKitty) =>
                  Effect(BuyCall(Y, kitty_id),
                     /\ result' = "Ok"
                     /\ Owner'[kitty_id] = Some(Y)
                     /\ ListForSale'[kitty_id] = None
                     /\ free'[X] + reserved'[X] = free[X] + reserved[X] + PriceOf(kitty_id)
                     /\ free'[Y] + reserved'[Y] = free[Y] + reserved[Y] - PriceOf(kitty_id)
                     /\ reserved'[X] = reserved[X] - StakeForEachKitty
                     /\ reserved'[Y] = reserved[Y] + StakeForEachKitty)]_vars

\* C6: a buy of a kitty listed by another account, by a caller whose free
\* balance is at most price + StakeForEachKitty, fails with
\* NotEnoughBalanceForBuying and changes neither the registry nor a balance.
BuyWithoutFundsIsRejected ==
    [][call' = "buy" =>
          Effect(\E Y \in Accounts, X \in Accounts, kitty_id \in KittyIndex :
                     /\ Owner[kitty_id] = Some(X) /\ X # Y
                     /\ Listed(kitty_id)
                     /\ free[Y] <= PriceOf(kitty_id) + StakeForEachKitty
                     /\ BuyCall(Y, kitty_id),
                 result' = "NotEnoughBalanceForBuying" /\ UNCHANGED <<ledger, registry>>)]_vars

\* C7: a buy succeeds only when the caller is not the owner and the kitty is
\* listed at a price at the time of the call; a buy by the owner fails with
\* BuyerIsOwner, a buy of an unlisted kitty by another account fails with
\* NotForSale, and a successful buy leaves no ListForSale entry for the kitty.
BuyOnlyListedFromAnother ==
    [][call' = "buy" =>
          \A buyer \in Accounts, kitty_id \in KittyIndex :
              Effect(BuyCall(buyer, kitty_id),
                 /\ result' = "Ok"
                      => /\ Owner[kitty_id] \notin {None, Some(buyer)}
                         /\ Listed(kitty_id)
                         /\ ListForSale'[kitty_id] = None
                 /\ Owner[kitty_id] = Some(buyer) => result' = "BuyerIsOwner"
                 /\ (Owner[kitty_id] \notin {None, Some(buyer)} /\ ~Listed(kitty_id))
                      => result' = "NotForSale")]_vars

\* C7 witness: a buy has succeeded and the kitty it bought is no longer listed.
BuyDone ==
    /\ call = "buy"
    /\ result = "Ok"
    /\ Owner[events[1][4]] = Some(events[1][3])
    /\ ListForSale[events[1][4]] = None

\* C8: transfer and sell by an account that is not the owner of the kitty
\* (also when the id was never created) fail with NotOwner and change
\* nothing; the Owner entry of a kitty changes only by a successful transfer
\* called by its owner or a successful buy of it, and a ListForSale entry
\* changes only by a sell called by the owner or a successful buy of it.
OnlyOwnerMoves ==
    [][/\ call' = "transfer" =>
            Effect(\E who \in Accounts, new_owner \in Accounts, kitty_id \in KittyIndex :
                       Owner[kitty_id] # Some(who) /\ TransferCall(who, new_owner, kitty_id),
                   result' = "NotOwner" /\ UNCHANGED <<ledger, registry>>)
       /\ call' = "sell" =>
            Effect(\E who \in Accounts, kitty_id \in KittyIndex, price \in Prices :
                       Owner[kitty_id] # Some(who) /\ SellCall(who, kitty_id, price),
                   result' = "NotOwner" /\ UNCHANGED <<ledger, registry>>)
       /\ \A kitty_id \in KittyIndex :
            (Owner[kitty_id] # None /\ Owner'[kitty_id] # Owner[kitty_id])
                => /\ result' = "Ok"
                   /\ \/ \E new_owner \in Accounts :
                            TransferCall(Owner[kitty_id][1], new_owner, kitty_id)
                      \/ \E buyer \in Accounts : BuyCall(buyer, kitty_id)
       /\ \A kitty_id \in KittyIndex :
            ListForSale'[kitty_id] # ListForSale[kitty_id]
                => /\ result' = "Ok"
                   /\ Owner[kitty_id] # None
                   /\ \/ \E price \in Prices :
                            SellCall(Owner[kitty_id][1], kitty_id, price)
                      \/ \E buyer \in Accounts : BuyCall(buyer, kitty_id)]_vars

\* C8 witness: a transfer or a sell of an existing kitty was refused with
\* NotOwner.
NotOwnerRefused ==
    /\ call \in {"transfer", "sell"}
    /\ result = "NotOwner"
    /\ KittiesCount # None

\* C9: a successful create or breed raises KittiesCount by one and writes the
\* Kitties and Owner entries of the id KittiesCount had, which had none, and
\* of no other id; transfer, sell, buy and every failed call leave
\* KittiesCount as it was.
IdsIssuedOnce ==
    [][/\ (call' \in {"create", "breed"} /\ result' = "Ok")
            => /\ KittiesCount' = Some(Count + 1)
               /\ Kitties[Count] = None /\ Owner[Count] = None
               /\ Kitties'[Count] # None /\ Owner'[Count] # None
               /\ \A i \in KittyIndex \ {Count} :
                     Kitties'[i] = Kitties[i] /\ Owner'[i] = Owner[i]
       /\ (call' \in {"transfer", "sell", "buy"} \/ result' # "Ok")
            => KittiesCount' = KittiesCount]_vars

\* C9 witness: a second kitty has been created by create or breed.
SecondKittyCreated ==
    /\ call \in {"create", "breed"}
    /\ result = "Ok"
    /\ Count >= 2
    /\ events[1] = <<"KittyCreated", Owner[Count - 1][1], Count - 1>>

\* C10: the ids with a Kitties entry are the ids with an Owner entry and are
\* 0 .. KittiesCount - 1; every id listed at a price is one of them; a genome
\* once stored never changes and its id is never removed.
RegistryConsistent ==
    /\ {i \in KittyIndex : Kitties[i] # None} = 0..(Count - 1)
    /\ {i \in KittyIndex : Owner[i] # None} = 0..(Count - 1)
    /\ \A i \in KittyIndex : Listed(i) => i \in 0..(Count - 1)

GenomesKept ==
    \A i \in KittyIndex :
        Kitties[i] # None => (Kitties'[i] = Kitties[i] /\ Owner'[i] # None)

RegistryConsistentAndKept == []RegistryConsistent /\ [][GenomesKept]_vars

\* C10 witness: every id the index type allows has been issued, and one of
\* the kitties is listed at a price.
RegistryFullAndListed ==
    /\ Count = KittyIndexMax
    /\ \E i \in KittyIndex : Listed(i)

\* The error create, breed, transfer and buy map a failed reserve to.
InsufficientStake == "NotEnoughBalanceForStaking"

\* C11: a create, breed or transfer whose stake provider (the caller of
\* create and breed, new_owner of transfer) cannot reserve StakeForEachKitty
\* returns NotEnoughBalanceForStaking and changes nothing: KittiesCount, the
\* Kitties and Owner entries and every free and reserved balance stay.
StakeFailureChangesNothing ==
    [][/\ (call' \in {"create", "breed", "transfer"} /\ result' = InsufficientStake)
            => UNCHANGED <<ledger, registry>>
       /\ call' = "create" =>
            Effect(\E who \in Accounts :
                       /\ free[who] < StakeForEachKitty
                       /\ KittiesCount # Some(KittyIndexMax)
                       /\ \E dna \in RandomValues : CreateCall(who, dna),
                   result' = InsufficientStake)
       /\ call' = "breed" =>
            Effect(\E who \in Accounts :
                       /\ free[who] < StakeForEachKitty
                       /\ KittiesCount # Some(KittyIndexMax)
                       /\ \E kitty_id_1 \in KittyIndex :
                            /\ Kitties[kitty_id_1] # None
                            /\ \E kitty_id_2 \in KittyIndex \ {kitty_id_1} :
                                 /\ Kitties[kitty_id_2] # None
                                 /\ \E selector \in Selectors :
                                      BreedCall(who, kitty_id_1, kitty_id_2, selector),
                   result' = InsufficientStake)
       /\ call' = "transfer" =>
            Effect(\E new_owner \in Accounts :
                       /\ free[new_owner] < StakeForEachKitty
                       /\ \E who \in Accounts, kitty_id \in KittyIndex :
                            /\ Owner[kitty_id] = Some(who)
                            /\ TransferCall(who, new_owner, kitty_id),
                   result' = InsufficientStake)]_vars

\* C11 witness: a breed of the two existing kitties was refused because the
\* caller could not reserve the stake.
BreedStakeRefused ==
    /\ call = "breed"
    /\ result = InsufficientStake
    /\ Count = 2

\* breed, called in the current state with a pair of parents it must reject,
\* returns the error of that pair and the state it was given.
BadParentsRejected ==
    \A who \in Accounts, kitty_id_1 \in KittyIndex, kitty_id_2 \in KittyIndex,
       selector \in Selectors :
        /\ kitty_id_1 = kitty_id_2 =>
              breed(State, who, kitty_id_1, kitty_id_2, selector)
                  = Err(State, "SameParentIndex")
        /\ (/\ kitty_id_1 # kitty_id_2
            /\ (Kitties[kitty_id_1] = None \/ Kitties[kitty_id_2] = None)) =>
              breed(State, who, kitty_id_1, kitty_id_2, selector)
                  = Err(State, "InvalidKittyIndex")

\* C12: breed with twice the same id fails with SameParentIndex whether or
\* not the id exists, breed with two distinct ids of which one has no Kitties
\* entry fails with InvalidKittyIndex, and both leave the registry,
\* KittiesCount and the balances as they were: in every reachable state breed
\* returns these errors for these parents, and every breed step that returns
\* one of them changes nothing.
BreedRejectsBadParents ==
    /\ []BadParentsRejected
    /\ [][(call' = "breed" /\ result' \in {"SameParentIndex", "InvalidKittyIndex"})
             => UNCHANGED <<ledger, registry>>]_vars

\* C12 witness: with kitties in the registry, a breed was refused for its
\* parents.
BreedParentsRefused ==
    /\ call = "breed"
    /\ result \in {"SameParentIndex", "InvalidKittyIndex"}
    /\ Count >= 1

\* C13: a successful breed, whoever calls it and whoever owns the parents,
\* creates exactly one kitty, owned by the caller, and leaves the genome, the
\* Owner entry and the ListForSale entry of both parents and the balances of
\* the parents' owners other than the caller as they were.
BreedLeavesParents ==
    [][(call' = "breed" /\ result' = "Ok") =>
          \A kitty_id_1 \in KittyIndex, kitty_id_2 \in KittyIndex :
              (Kitties[kitty_id_1] # None /\ Kitties[kitty_id_2] # None) =>
                  \A who \in Accounts, selector \in Selectors :
                      Effect(BreedCall(who, kitty_id_1, kitty_id_2, selector),
                         /\ Owner'[Count] = Some(who)
                         /\ KittiesCount' = Some(Count + 1)
                         /\ Kitties[Count] = None /\ Kitties'[Count] # None
                         /\ \A i \in KittyIndex \ {Count} :
                                Kitties'[i] = Kitties[i] /\ Owner'[i] = Owner[i]
                         /\ \A p \in {kitty_id_1, kitty_id_2} :
                                /\ Kitties'[p] = Kitties[p]
                                /\ Owner'[p] = Owner[p]
                                /\ ListForSale'[p] = ListForSale[p]
                                /\ Owner[p] # Some(who) =>
                                      /\ free'[Owner[p][1]] = free[Owner[p][1]]
                                      /\ reserved'[Owner[p][1]] = reserved[Owner[p][1]])]_vars

\* C13 witness: an account has bred the kitties of two other accounts.
BredFromTwoOwners ==
    /\ call = "breed"
    /\ result = "Ok"
    /\ Count = 3
    /\ Owner[0] # Owner[1]
    /\ Owner[2] \notin {Owner[0], Owner[1]}

\* C14: a transfer leaves every ListForSale entry as it was; when a kitty
\* listed at P was transferred from X to Z and a third account then buys it,
\* X's balances do not change, and when that buy succeeds P is paid to Z and
\* Z's stake is released.
TransferKeepsListing ==
    [][/\ call' = "transfer" => ListForSale' = ListForSale
       /\ (call = "transfer" /\ result = "Ok" /\ call' = "buy") =>
            LET X == events[1][2]
                Z == events[1][3]
                kitty_id == events[1][4]
            IN  (X # Z /\ Listed(kitty_id)) =>
                  \A Y \in Accounts \ {X, Z} :
                      Effect(BuyCall(Y, kitty_id),
                         /\ Owner[kitty_id] = Some(Z)
                         /\ free'[X] = free[X] /\ reserved'[X] = reserved[X]
                         /\ result' = "Ok" =>
                              /\ free'[Z] = free[Z] + StakeForEachKitty + PriceOf(kitty_id)
                              /\ reserved'[Z] = reserved[Z] - StakeForEachKitty
                              /\ free'[Y] = free[Y] - StakeForEachKitty - PriceOf(kitty_id)
                              /\ reserved'[Y] = reserved[Y] + StakeForEachKitty
                              /\ Owner'[kitty_id] = Some(Y))]_vars

\* C14 witness: a kitty listed at a price has been transferred to another
\* account and is still listed.
ListedKittyTransferred ==
    /\ call = "transfer"
    /\ result = "Ok"
    /\ events[1][2] # events[1][3]
    /\ Owner[events[1][4]] = Some(events[1][3])
    /\ Listed(events[1][4])

\* C15 as claimed: KittiesCount never exceeds KittyIndexMax, and when it is
\* KittyIndexMax every create and every breed fails with KittiesCountOverflow
\* and changes nothing.
CountAtMaxRefusesEveryCall ==
    /\ [](Count <= KittyIndexMax)
    /\ [][(KittiesCount = Some(KittyIndexMax) /\ call' \in {"create", "breed"})
             => (result' = "KittiesCountOverflow" /\ UNCHANGED <<ledger, registry>>)]_vars

\* C15 as amended: KittiesCount never exceeds KittyIndexMax, and when it is
\* KittyIndexMax every create and every breed of two distinct existing kitties
\* fails with KittiesCountOverflow, and no create or breed succeeds or changes
\* the registry, KittiesCount or a balance.
CountAtMaxRefusesNewKitty ==
    /\ [](Count <= KittyIndexMax)
    /\ [][(KittiesCount = Some(KittyIndexMax) /\ call' \in {"create", "breed"}) =>
             /\ result' # "Ok" /\ UNCHANGED <<ledger, registry>>
             /\ call' = "create" => result' = "KittiesCountOverflow"
             /\ Effect(\E who \in Accounts, kitty_id_1 \in KittyIndex,
                          kitty_id_2 \in KittyIndex, selector \in Selectors :
                           /\ kitty_id_1 # kitty_id_2
                           /\ Kitties[kitty_id_1] # None /\ Kitties[kitty_id_2] # None
                           /\ BreedCall(who, kitty_id_1, kitty_id_2, selector),
                       result' = "KittiesCountOverflow")]_vars

\* C15 witness: with KittiesCount at the maximum a create or a breed was
\* refused with KittiesCountOverflow.
CountAtMaxRefused ==
    /\ KittiesCount = Some(KittyIndexMax)
    /\ call \in {"create", "breed"}
    /\ result = "KittiesCountOverflow"

\* Bit k of the byte x.
Bit(x, k) == (x \div (2 ^ k)) % 2

\* C16: the genome a successful breed stores is the per-bit select of the
\* parents' genomes under the selector: bit k of byte i of the child is bit k
\* of byte i of parent 1 where that bit of the selector is 1 and of parent 2
\* where it is 0, for all genomes and selectors.
BreedIsBitSelect ==
    [][(call' = "breed" /\ result' = "Ok") =>
          \A who \in Accounts, kitty_id_1 \in KittyIndex, kitty_id_2 \in KittyIndex,
             selector \in BreedSelectors :
              (Kitties[kitty_id_1] # None /\ Kitties[kitty_id_2] # None) =>
                  Effect(BreedCall(who, kitty_id_1, kitty_id_2, selector),
                     /\ Kitties'[Count] # None
                     /\ Len(Kitties'[Count][1]) = DnaLen
                     /\ \A i \in 1..DnaLen :
                          /\ Kitties'[Count][1][i] \in 0..255
                          /\ \A k \in 0..7 :
                               Bit(Kitties'[Count][1][i], k) =
                                   IF Bit(selector[i], k) = 1
                                   THEN Bit(Kitties[kitty_id_1][1][i], k)
                                   ELSE Bit(Kitties[kitty_id_2][1][i], k))]_vars

\* C16 witness: a breed has stored a genome that is neither parent's.
BredMixedGenome ==
    /\ call = "breed"
    /\ result = "Ok"
    /\ Count = 3
    /\ Kitties[2] \notin {Kitties[0], Kitties[1]}

\* C17: a call that returns Ok deposits exactly one event, KittyCreated,
\* KittyTransferred or KittyListed with the accounts, the id and the price of
\* that call, and a call that returns an error deposits none, whichever step
\* it failed at.
OneEventPerSuccess ==
    [][/\ result' # "Ok" => events' = <<>>
       /\ result' = "Ok" =>
            /\ Len(events') = 1
            /\ call' = "create" =>
                 \A who \in Accounts, dna \in RandomValues :
                     Effect(CreateCall(who, dna),
                            events' = << <<"KittyCreated", who, Count>> >>)
            /\ call' = "breed" =>
                 \A who \in Accounts, kitty_id_1 \in KittyIndex,
                    kitty_id_2 \in KittyIndex, selector \in Selectors :
                     Effect(BreedCall(who, kitty_id_1, kitty_id_2, selector),
                            events' = << <<"KittyCreated", who, Count>> >>)
            /\ call' = "transfer" =>
                 \A who \in Accounts, new_owner \in Accounts, kitty_id \in KittyIndex :
                     Effect(TransferCall(who, new_owner, kitty_id),
                            events' = << <<"KittyTransferred", who, new_owner, kitty_id>> >>)
            /\ call' = "sell" =>
                 \A who \in Accounts, kitty_id \in KittyIndex, price \in Prices :
                     Effect(SellCall(who, kitty_id, price),
                            events' = << <<"KittyListed", who, kitty_id, price>> >>)
            /\ call' = "buy" =>
                 \A buyer \in Accounts, kitty_id \in KittyIndex :
                     Owner[kitty_id] # None =>
                         Effect(BuyCall(buyer, kitty_id),
                                events' = << <<"KittyTransferred", Owner[kitty_id][1],
                                               buyer, kitty_id>> >>)]_vars

\* C17 witness: a buy has failed at its last fallible step, the payment, and
\* the call has deposited no event.
BuyFailedWithoutEvent ==
    /\ call = "buy"
    /\ result \in PaymentErrors
    /\ events = <<>>

\* C18: no call changes a balance or the registry before its last step that
\* can fail: a call that returns an error, at whichever step, has reserved,
\* released, transferred and written nothing.
FailedCallChangesNothing ==
    [][result' # "Ok" => UNCHANGED <<ledger, registry>>]_vars

\* What a call returns when it stops at a check before its Currency calls.
RefusedAtCheck ==
    {"panic", "NotOwner", "BuyerIsOwner", "NotForSale", "NotEnoughBalanceForBuying"}

\* C19: transfer and buy reserve the stake of the new owner, out of the
\* balances as they are before the call, before they release the stake of
\* the old owner: in every reachable state, a transfer by the owner or a buy
\* that is past its checks returns NotEnoughBalanceForStaking and the balances
\* it was given when that reservation fails, and when it succeeds the release
\* is applied to the balances the reservation left.
StakeReservedBeforeReleased ==
    \A kitty_id \in KittyIndex :
        Owner[kitty_id] # None =>
            \A new_owner \in Accounts :
                LET old_owner == Owner[kitty_id][1]
                    r == reserve(State, new_owner, StakeForEachKitty)
                    s == unreserve(r.st, old_owner, StakeForEachKitty)
                    t == transfer(State, old_owner, new_owner, kitty_id)
                IN  /\ IF r.res # "Ok"
                       THEN t = Err(State, InsufficientStake)
                       ELSE /\ t.res = "Ok"
                            /\ r.st.reserved[new_owner] =
                                   reserved[new_owner] + StakeForEachKitty
                            /\ r.st.reserved[old_owner] >= reserved[old_owner]
                            /\ t.st.free = s.free /\ t.st.reserved = s.reserved
                    /\ \A overflow_checks \in BOOLEAN :
                         LET b == buy(State, new_owner, kitty_id, overflow_checks) IN
                         b.res \notin RefusedAtCheck =>
                             IF r.res # "Ok"
                             THEN b = Err(State, InsufficientStake)
                             ELSE /\ b.res # InsufficientStake
                                  /\ b.st.reserved = s.reserved

\* C19 witness: a transfer was refused because the new owner could not
\* reserve the stake, and every owner's stake is still reserved.
TransferStakeRefused ==
    /\ call = "transfer"
    /\ result = InsufficientStake
    /\ Count >= 1
    /\ \A i \in 0..(Count - 1) : reserved[Owner[i][1]] >= StakeForEachKitty

\* C20: the funds check of buy uses the true sum price + StakeForEachKitty,
\* also when that sum exceeds BalanceMax: a buyer whose free balance does not
\* exceed price + StakeForEachKitty never passes the check.
FundsCheckNeverWraps ==
    [][call' = "buy" =>
          Effect(\E Y \in Accounts, X \in Accounts, kitty_id \in KittyIndex :
                     /\ Owner[kitty_id] = Some(X) /\ X # Y
                     /\ Listed(kitty_id)
                     /\ free[Y] <= PriceOf(kitty_id) + StakeForEachKitty
                     /\ BuyCall(Y, kitty_id),
                 result' \notin ({"Ok", InsufficientStake} \cup PaymentErrors))]_vars
====
